---- MODULE Spec2Model ----
(***************************************************************************)
(* Log ingestion, reconciliation, listing and clearing of the alpenity     *)
(* backend, in its two server programs:                                    *)
(*   - src/server.js          the in-memory ("volatile") log list          *)
(*   - src/unnamed/part_000   the MongoDB ("durable") log collection       *)
(*                                                                         *)
(* JavaScript strings that the code inspects character by character        *)
(* (status, type, the page and limit query parameters) are sequences of    *)
(* one-character strings; strings that are only compared for equality      *)
(* (execution ids, platforms) are TLA+ strings.  A JavaScript object is a  *)
(* function from its own keys to values: an absent key is a key that is    *)
(* not in the DOMAIN.                                                      *)
(***************************************************************************)
EXTENDS Integers, Sequences, FiniteSets, TLC

VARIABLES
    backend,         \* which server program runs: "volatile" (server.js), "durable"
                     \* (part_000), "pair" (both), "async" (part_000, a step per await)
    clock,           \* the wall clock in ms (Date.now(), new Date())
    logs,            \* server.js: let logs = [] (newest first)
    coll,            \* part_000: the documents of the "Logs" collection, in insertion order
    nextOid,         \* part_000: the ObjectId the driver generates next
    logsCollection,  \* part_000: let logsCollection (TRUE once assigned)
    initPc,          \* part_000: where initMongo() stands
    nCreated,        \* number of addLog calls made so far (bounds the run)
    last,            \* the last request handled and its response
    inflight         \* part_000: the async handlers that wait at an await, and the
                     \* ids that reconciliation has removed in calls already answered

vars == <<backend, clock, logs, coll, nextOid, logsCollection, initPc, nCreated, last,
          inflight>>

\* no async handler of part_000 is waiting for a storage operation
NoHandlers == [post |-> [pc |-> "idle"], get |-> [pc |-> "idle"], gone |-> {}]

-----------------------------------------------------------------------------
(* Bounds of the model *)

\* longest batch one create-logs call carries
MaxBatch == 2
\* addLog calls in one run
MaxCreated == 2
\* ms the clock may advance before one addLog reads it
MaxTick == 1
\* distinct outcomes of Math.random().toString(36).slice(2, 8)
MaxRand == 2

-----------------------------------------------------------------------------
(* Strings as character sequences *)

UpperChars == <<"A","B","C","D","E","F","G","H","I","J","K","L","M",
                "N","O","P","Q","R","S","T","U","V","W","X","Y","Z">>
LowerChars == <<"a","b","c","d","e","f","g","h","i","j","k","l","m",
                "n","o","p","q","r","s","t","u","v","w","x","y","z">>
DigitChars == <<"0","1","2","3","4","5","6","7","8","9">>

LowerChar(c) ==
    IF \E i \in 1..26 : UpperChars[i] = c
    THEN LowerChars[CHOOSE i \in 1..26 : UpperChars[i] = c]
    ELSE c

\* String.prototype.toLowerCase
toLowerCase(s) == [i \in 1..Len(s) |-> LowerChar(s[i])]

StrInfo == <<"i","n","f","o">>
StrFailure == <<"f","a","i","l","u","r","e">>
StrSuccess == <<"s","u","c","c","e","s","s">>
StrWaiting == <<"w","a","i","t","i","n","g">>
StrWaitingForApproval ==
    <<"w","a","i","t","i","n","g"," ","f","o","r"," ","a","p","p","r","o","v","a","l">>

-----------------------------------------------------------------------------
(* JavaScript numbers: an integer or NaN *)

Num(n) == [nan |-> FALSE, n |-> n]
NaN == [nan |-> TRUE, n |-> 0]

MathMax(a, b) == IF a.nan \/ b.nan THEN NaN ELSE IF a.n >= b.n THEN a ELSE b
MathMin(a, b) == IF a.nan \/ b.nan THEN NaN ELSE IF a.n <= b.n THEN a ELSE b

IsWhitespace(c) == c = " "
IsDigit(c) == \E d \in 1..10 : DigitChars[d] = c
DigitValue(c) == (CHOOSE d \in 1..10 : DigitChars[d] = c) - 1

RECURSIVE SkipWhitespace(_)
SkipWhitespace(s) ==
    IF s # <<>> /\ IsWhitespace(Head(s)) THEN SkipWhitespace(Tail(s)) ELSE s

\* the value of the longest run of decimal digits at the head of s, after acc
RECURSIVE DigitRun(_, _)
DigitRun(s, acc) ==
    IF s # <<>> /\ IsDigit(Head(s))
    THEN DigitRun(Tail(s), 10 * acc + DigitValue(Head(s)))
    ELSE acc

\* parseInt(s, 10): leading whitespace, an optional sign, then decimal digits;
\* NaN when no digit follows
parseInt(s) ==
    LET t == SkipWhitespace(s)
        signed == t # <<>> /\ Head(t) \in {"-", "+"}
        u == IF signed THEN Tail(t) ELSE t
    IN  IF u = <<>> \/ ~IsDigit(Head(u)) THEN NaN
        ELSE IF signed /\ Head(t) = "-" THEN Num(0 - DigitRun(u, 0))
        ELSE Num(DigitRun(u, 0))

\* obj.key || dflt for a string-valued key: absent and "" are falsy
OrDefault(obj, key, dflt) ==
    IF key \in DOMAIN obj /\ obj[key] # <<>> THEN obj[key] ELSE dflt

-----------------------------------------------------------------------------
(* Records, status normalization and the entry's data (both programs) *)

HasKey(obj, key) == key \in DOMAIN obj

\* the JSON value null
JsNull == "<null>"

\* the object {}
EmptyObject == [k \in {} |-> ""]

\* (item.status || item.type || "info").toString().toLowerCase()
IncomingStatus(item) ==
    toLowerCase(OrDefault(item, "status", OrDefault(item, "type", StrInfo)))

\* the if / else-if chain that maps the incoming status to the internal type
NormalizeType(item) ==
    LET incomingStatus == IncomingStatus(item)
    IN  IF incomingStatus = StrFailure THEN "failure"
        ELSE IF incomingStatus = StrSuccess THEN "success"
        ELSE IF incomingStatus = StrWaitingForApproval \/ incomingStatus = StrWaiting
             THEN "waiting"
        ELSE "info"

\* const data = { ...item }; delete data.status; delete data.type;
\* (StripStatusAndPlatform: a copy that loses the platform as well)
StripStatusAndPlatform(item) == [k \in DOMAIN item \ {"status", "type", "platform"} |-> item[k]]

StripStatus(item) == [k \in DOMAIN item \ {"status", "type"} |-> item[k]]

\* type === "success" && item.draft_workflow_execution_id
\* (a draft id is a string here: the empty string is falsy)
Reconciles(type, item) ==
    /\ type = "success"
    /\ HasKey(item, "draft_workflow_execution_id")
    /\ item.draft_workflow_execution_id # ""

\* array.splice(i, 1) with a 1-based i
RemoveAt(s, i) == SubSeq(s, 1, i - 1) \o SubSeq(s, i + 1, Len(s))

-----------------------------------------------------------------------------
(* server.js: the in-memory log list *)

\* logs.length > 1000, logs.slice(0, 1000)
LogCap == 1000

\* function addLog(type, data) at time now, with rnd the random part of the id:
\* the new entry and the list after unshift and the cap
\* (addLogNoCap: the same function without the cap of line 32)
addLogNoCap(list, type, data, now, rnd) ==
    LET log == [id |-> <<now, rnd>>, type |-> type, data |-> data, timestamp |-> now]
    IN  [entry |-> log, logs |-> <<log>> \o list]

addLog(list, type, data, now, rnd) ==
    LET log == [id |-> <<now, rnd>>, type |-> type, data |-> data, timestamp |-> now]
        unshifted == <<log>> \o list
    IN  [entry |-> log,
         logs |-> IF Len(unshifted) > LogCap THEN SubSeq(unshifted, 1, LogCap)
                  ELSE unshifted]

\* function initializeDemoLogs(), run at clock 0: three addLog calls
DemoData1 ==
    [workflow_name |-> "Meta Posting workflow", workflow_id |-> "qK8cGeNk3cXA2qbH",
     execution_id |-> "433",
     post_link |-> "https://www.facebook.com/122102491071110135/posts/122102481771110135",
     article_url |-> "https://example.com/article-1"]
DemoData2 ==
    [workflow_name |-> "Meta Posting workflow", workflow_id |-> "qK8cGeNk3cXA2qbH",
     execution_id |-> "520",
     database_link |-> "https://www.notion.so/2aee8b7ef13480cc9ad2ecf7355effea?v=2aee8b7ef1348070b618000c1988165a",
     article_url |-> JsNull]
DemoData3 ==
    [workflow_name |-> "Meta Posting workflow", workflow_id |-> "qK8cGeNk3cXA2qbH",
     execution_id |-> "454", node |-> "HTTP Request",
     error_message |-> "Bad request - please check your parameters",
     error_description |-> "(#100) Tried accessing nonexisting field (permalink_ur) on node type (PagePost)",
     execution_link |-> "https://n8n.cupidworld.com/workflow/qK8cGeNk3cXA2qbH/executions/454"]

initializeDemoLogs ==
    LET l1 == addLog(<<>>, "success", DemoData1, 0, 10).logs
        l2 == addLog(l1, "waiting", DemoData2, 0, 11).logs
    IN  addLog(l2, "failure", DemoData3, 0, 12).logs

\* log.type === "waiting" && log.data.execution_id === draftExecutionId
\*   && log.data.platform === platform, with platform = item.platform
\* (undefined === undefined when neither has the key)
\* (VolatileMatchesAnyPlatform: the same predicate without its platform conjunct)
VolatileMatchesAnyPlatform(log, item) ==
    /\ log.type = "waiting"
    /\ HasKey(log.data, "execution_id")
    /\ log.data.execution_id = item.draft_workflow_execution_id

VolatileMatches(log, item) ==
    /\ log.type = "waiting"
    /\ HasKey(log.data, "execution_id")
    /\ log.data.execution_id = item.draft_workflow_execution_id
    /\ IF HasKey(item, "platform")
       THEN HasKey(log.data, "platform") /\ log.data.platform = item.platform
       ELSE ~HasKey(log.data, "platform")

\* logs.findIndex(...): the first (newest) match, 0 for JavaScript's -1
findIndex(list, item) ==
    IF \E i \in 1..Len(list) : VolatileMatches(list[i], item)
    THEN CHOOSE i \in 1..Len(list) :
            /\ VolatileMatches(list[i], item)
            /\ \A j \in 1..(i-1) : ~VolatileMatches(list[j], item)
    ELSE 0

\* one turn of the for loop of app.post("/api/logs"), the clock advancing by tick
\* before addLog reads it
VolatileItem(st, item, tick, rnd) ==
    LET type == NormalizeType(item)
        indexToRemove == IF Reconciles(type, item) THEN findIndex(st.logs, item) ELSE 0
        spliced == IF indexToRemove # 0 THEN RemoveAt(st.logs, indexToRemove) ELSE st.logs
        now == st.clock + tick
        added == addLog(spliced, type, StripStatus(item), now, rnd)
    IN  [logs |-> added.logs,
         clock |-> now,
         created |-> Append(st.created, added.entry),
         steps |-> Append(st.steps,
                     [item |-> item, type |-> type, pre |-> st.logs,
                      removed |-> indexToRemove, fault |-> "none", stored |-> TRUE])]

\* the for loop: every outcome of the clock and of Math.random
RECURSIVE VolatileLoop(_, _)
VolatileLoop(items, st) ==
    IF items = <<>> THEN {st}
    ELSE UNION { VolatileLoop(Tail(items), VolatileItem(st, Head(items), tick, rnd)) :
                    tick \in 0..MaxTick, rnd \in 0..(MaxRand - 1) }

\* Array.prototype.slice(0, end): a negative end counts from the end of the array
SliceTo(s, end) ==
    LET e == IF end < 0 THEN Len(s) + end ELSE end
        k == IF e < 0 THEN 0 ELSE IF e > Len(s) THEN Len(s) ELSE e
    IN  SubSeq(s, 1, k)

Str100 == <<"1","0","0">>

\* parseInt(req.query.limit || "100", 10) || 100   (NaN and 0 are falsy)
VolatileLimit(query) ==
    LET parsed == parseInt(OrDefault(query, "limit", Str100))
    IN  IF parsed.nan \/ parsed.n = 0 THEN 100 ELSE parsed.n

-----------------------------------------------------------------------------
(* part_000: the MongoDB log collection *)

Str1 == <<"1">>
Str20 == <<"2","0">>

\* Math.max(1, parseInt(req.query.page || "1", 10))
DurablePage(query) == MathMax(Num(1), parseInt(OrDefault(query, "page", Str1)))

\* Math.max(1, Math.min(100, parseInt(req.query.limit || "20", 10)))
DurableLimit(query) ==
    MathMax(Num(1), MathMin(Num(100), parseInt(OrDefault(query, "limit", Str20))))

\* the query of findOneAndDelete: { type: "waiting", "data.execution_id": draftExecutionId }
\* and, when item.platform is truthy, "data.platform": platform
DurableMatches(doc, item) ==
    /\ doc.type = "waiting"
    /\ HasKey(doc.data, "execution_id")
    /\ doc.data.execution_id = item.draft_workflow_execution_id
    /\ (HasKey(item, "platform") /\ item.platform # "")
          => (HasKey(doc.data, "platform") /\ doc.data.platform = item.platform)

\* logsCollection.findOneAndDelete(query), no sort given: the collection's natural
\* order decides which matching document goes, and MongoDB leaves that order
\* open; 0 stands for "no document matched"
findOneAndDelete(docs, item) ==
    IF \E i \in 1..Len(docs) : DurableMatches(docs[i], item)
    THEN {i \in 1..Len(docs) : DurableMatches(docs[i], item)}
    ELSE {0}

\* the client shape of a document: id, type, data, timestamp
ClientShape(doc) ==
    [id |-> doc._id, type |-> doc.type, data |-> doc.data, timestamp |-> doc.createdAt]

\* async function addLog(type, data) with logsCollection set: insertOne(doc), the
\* driver giving the document its ObjectId
\* (addLogMongoReplaces: an insert that overwrites the newest document)
addLogMongoReplaces(docs, type, data, now, oid) ==
    LET doc == [_id |-> oid, type |-> type, data |-> data, createdAt |-> now]
    IN  [entry |-> ClientShape(doc),
         coll |-> IF docs = <<>> THEN <<doc>> ELSE [docs EXCEPT ![Len(docs)] = doc]]

addLogMongo(docs, type, data, now, oid) ==
    LET doc == [_id |-> oid, type |-> type, data |-> data, createdAt |-> now]
    IN  [entry |-> ClientShape(doc), coll |-> Append(docs, doc)]

\* addLog with logsCollection unset: an entry is made up and nothing is stored
addLogFallback(type, data, now, rnd) ==
    [id |-> <<now, rnd>>, type |-> type, data |-> data, timestamp |-> now]

\* one turn of the for loop of app.post("/api/logs") with logsCollection set.
\* removed: what findOneAndDelete took (0: nothing, -1: it rejected, which ends
\* the handler with no response); insertOk: whether insertOne resolved (a
\* rejection is caught and logged, and the entry is not pushed to created)
DurableItem(st, item, removed, tick, insertOk) ==
    LET type == NormalizeType(item)
        afterDelete == IF removed > 0 THEN RemoveAt(st.coll, removed) ELSE st.coll
        now == st.clock + tick
        added == addLogMongo(afterDelete, type, StripStatus(item), now, st.nextOid)
        step == [item |-> item, type |-> type, pre |-> st.coll]
    IN  IF removed = -1
        THEN [st EXCEPT !.aborted = TRUE,
                        !.steps = Append(@, step @@ [removed |-> 0, fault |-> "delete",
                                                     stored |-> FALSE])]
        ELSE IF insertOk
        THEN [st EXCEPT !.coll = added.coll, !.clock = now, !.nextOid = @ + 1,
                        !.created = Append(@, added.entry),
                        !.steps = Append(@, step @@ [removed |-> removed, fault |-> "none",
                                                     stored |-> TRUE])]
        ELSE [st EXCEPT !.coll = afterDelete, !.clock = now,
                        !.steps = Append(@, step @@ [removed |-> removed, fault |-> "insert",
                                                     stored |-> FALSE])]

\* the outcomes of findOneAndDelete for one item: not called unless the item
\* reconciles; -1 when the call rejects
DeleteOutcomes(docs, item) ==
    IF Reconciles(NormalizeType(item), item)
    THEN findOneAndDelete(docs, item) \cup {-1}
    ELSE {0}

\* the for loop with logsCollection set: every outcome of the clock, of the
\* natural order and of a storage operation rejecting
RECURSIVE DurableLoop(_, _)
DurableLoop(items, st) ==
    IF items = <<>> \/ st.aborted THEN {st}
    ELSE UNION { DurableLoop(Tail(items),
                             DurableItem(st, Head(items), removed, tick, insertOk)) :
                    removed \in DeleteOutcomes(st.coll, Head(items)),
                    tick \in 0..MaxTick,
                    insertOk \in BOOLEAN }

\* one turn of the for loop with logsCollection unset: no reconciliation, the
\* fallback branch of addLog
\* (FallbackItemNotPushed: the same turn without created.push(entry))
FallbackItemNotPushed(st, item, tick, rnd) ==
    [st EXCEPT !.clock = st.clock + tick,
               !.steps = Append(@, [item |-> item, type |-> NormalizeType(item),
                                    pre |-> st.coll, removed |-> 0, fault |-> "none",
                                    stored |-> FALSE])]

FallbackItem(st, item, tick, rnd) ==
    LET type == NormalizeType(item)
        now == st.clock + tick
        entry == addLogFallback(type, StripStatus(item), now, rnd)
    IN  [st EXCEPT !.clock = now,
                   !.created = Append(@, entry),
                   !.steps = Append(@, [item |-> item, type |-> type, pre |-> st.coll,
                                        removed |-> 0, fault |-> "none", stored |-> FALSE])]

RECURSIVE FallbackLoop(_, _)
FallbackLoop(items, st) ==
    IF items = <<>> THEN {st}
    ELSE UNION { FallbackLoop(Tail(items), FallbackItem(st, Head(items), tick, rnd)) :
                    tick \in 0..MaxTick, rnd \in 0..(MaxRand - 1) }

\* find({}).sort({ createdAt: -1 }): every order of the documents that is
\* descending in createdAt (the sort leaves the order of equal keys open)
RECURSIVE SortedDesc(_, _)
SortedDesc(docs, left) ==
    IF left = {} THEN {<<>>}
    ELSE LET newest == {i \in left : \A j \in left : docs[i].createdAt >= docs[j].createdAt}
         IN  UNION { { <<docs[i]>> \o rest : rest \in SortedDesc(docs, left \ {i}) } :
                        i \in newest }

\* logsCollection.deleteMany({}): the documents left
\* (deleteManyKeepsNewest: a delete that spares the newest document)
deleteManyKeepsNewest(docs) == IF docs = <<>> THEN <<>> ELSE <<docs[Len(docs)]>>

deleteMany(docs) == <<>>

\* .skip(skip).limit(limit) of a sorted result
SkipLimit(sorted, skip, limit) ==
    IF skip >= Len(sorted) THEN <<>>
    ELSE SubSeq(sorted, skip + 1,
                IF skip + limit > Len(sorted) THEN Len(sorted) ELSE skip + limit)

-----------------------------------------------------------------------------
(* The requests the model sends *)

StrCapSuccess == <<"S","u","c","c","e","s","s">>
StrBanana == <<"b","a","n","a","n","a">>

WaitingFacebook ==
    [status |-> StrWaitingForApproval, execution_id |-> "520", platform |-> "facebook"]
WaitingNoPlatform ==
    [status |-> StrWaiting, execution_id |-> "520"]
SuccessFacebook ==
    [status |-> StrCapSuccess, execution_id |-> "601",
     draft_workflow_execution_id |-> "520", platform |-> "facebook"]
SuccessInstagram ==
    [status |-> StrSuccess, execution_id |-> "601",
     draft_workflow_execution_id |-> "520", platform |-> "instagram"]
SuccessNoPlatform ==
    [status |-> StrSuccess, execution_id |-> "601", draft_workflow_execution_id |-> "520"]
SuccessEmptyPlatform ==
    [status |-> StrSuccess, execution_id |-> "601",
     draft_workflow_execution_id |-> "520", platform |-> ""]
SuccessNoDraft ==
    [type |-> StrSuccess, execution_id |-> "433"]
Banana ==
    [status |-> StrBanana, type |-> StrFailure, execution_id |-> "454"]

Items == {WaitingFacebook, WaitingNoPlatform, SuccessFacebook, SuccessInstagram,
          SuccessNoPlatform, SuccessEmptyPlatform, SuccessNoDraft, Banana, EmptyObject}

\* req.body as express.json() leaves it: nothing parsed (undefined), one record
\* or an array of records.  A request that carries no body at all arrives as
\* undefined or as the object {}, depending on the version of express, and a
\* client can send {} or [] itself
Bodies ==
    {[kind |-> "undefined"]}
    \cup {[kind |-> "object", item |-> it] : it \in Items}
    \cup {[kind |-> "array", items |-> its] :
             its \in UNION {[1..n -> Items] : n \in 0..MaxBatch}}

\* what a caller sent, as far as the body check can tell: no body (req.body is
\* falsy), an empty one ([] or {}), or records
BodyClass(body) ==
    IF body.kind = "undefined" THEN "absent"
    ELSE IF body.kind = "array" /\ body.items = <<>> THEN "empty"
    ELSE IF body.kind = "object" /\ body.item = EmptyObject THEN "empty"
    ELSE "records"

\* const items = Array.isArray(body) ? body : [body]
ItemsOf(body) == IF body.kind = "array" THEN body.items ELSE <<body.item>>

Str0 == <<"0">>
Str2 == <<"2">>
Str500 == <<"5","0","0">>
StrAbc == <<"a","b","c">>
StrMinus1 == <<"-","1">>

\* req.query of a list-logs request
Queries ==
    { EmptyObject,
      [page |-> Str2, limit |-> Str1],
      [page |-> Str0, limit |-> Str500],
      [page |-> StrAbc, limit |-> StrMinus1] }

-----------------------------------------------------------------------------
(* server.js: the request handlers *)

\* app.post("/api/logs")
VolatilePostLogs ==
    /\ backend = "volatile"
    /\ \E body \in Bodies :
          IF body.kind = "undefined"
          THEN /\ last' = [op |-> "create", items |-> <<>>, status |-> 400, conn |-> TRUE,
                           body |-> BodyClass(body), created |-> <<>>, steps |-> <<>>]
               /\ UNCHANGED <<logs, clock, nCreated>>
          ELSE /\ nCreated + Len(ItemsOf(body)) <= MaxCreated
               /\ \E out \in VolatileLoop(ItemsOf(body),
                                [logs |-> logs, clock |-> clock,
                                 created |-> <<>>, steps |-> <<>>]) :
                     /\ logs' = out.logs
                     /\ clock' = out.clock
                     /\ nCreated' = nCreated + Len(ItemsOf(body))
                     /\ last' = [op |-> "create", items |-> ItemsOf(body), status |-> 200,
                                 conn |-> TRUE, body |-> BodyClass(body),
                                 created |-> out.created, steps |-> out.steps]
    /\ UNCHANGED <<inflight, backend, coll, nextOid, logsCollection, initPc>>

\* app.get("/api/logs"): res.status(200).json(logs.slice(0, limit)), a bare array
VolatileListing(list, query) ==
    [op |-> "list", query |-> query, status |-> 200, shape |-> "array", conn |-> TRUE,
     limit |-> Num(VolatileLimit(query)),
     logs |-> SliceTo(list, VolatileLimit(query))]

VolatileGetLogs ==
    /\ backend = "volatile"
    /\ \E query \in Queries : last' = VolatileListing(logs, query)
    /\ UNCHANGED <<inflight, backend, clock, logs, coll, nextOid, logsCollection, initPc, nCreated>>

\* app.post("/api/logs/clear")
VolatileClearLogs ==
    /\ backend = "volatile"
    /\ logs' = <<>>
    /\ last' = [op |-> "clear", status |-> 200, conn |-> TRUE, pre |-> logs,
                again |-> (last.op = "clear" /\ last.status = 200)]
    /\ UNCHANGED <<inflight, backend, clock, coll, nextOid, logsCollection, initPc, nCreated>>

-----------------------------------------------------------------------------
(* part_000: initMongo and the request handlers *)

\* initMongo() resumes after await mongoClient.connect() resolved: logsCollection
\* is assigned; what follows (createIndex, the ping, the catch block) assigns
\* only dbStatus, which no handler modelled here reads
InitMongoConnected ==
    /\ backend = "durable"
    /\ initPc = "connect"
    /\ logsCollection' = TRUE
    /\ initPc' = "returned"
    /\ UNCHANGED <<inflight, backend, clock, logs, coll, nextOid, nCreated, last>>

\* await mongoClient.connect() rejects: the catch block, logsCollection stays unset
InitMongoFailed ==
    /\ backend = "durable"
    /\ initPc = "connect"
    /\ initPc' = "returned"
    /\ UNCHANGED <<inflight, backend, clock, logs, coll, nextOid, logsCollection, nCreated, last>>

\* app.post("/api/logs"); status 0 stands for a handler that ended in a rejection
\* and sent no response
DurablePostLogs ==
    /\ backend = "durable"
    /\ \E body \in Bodies :
          IF body.kind = "undefined"
          THEN /\ last' = [op |-> "create", items |-> <<>>, status |-> 400,
                           conn |-> logsCollection, body |-> BodyClass(body),
                           created |-> <<>>, steps |-> <<>>]
               /\ UNCHANGED <<coll, clock, nextOid, nCreated>>
          ELSE /\ nCreated + Len(ItemsOf(body)) <= MaxCreated
               /\ \E out \in
                     (IF logsCollection
                      THEN DurableLoop(ItemsOf(body),
                               [coll |-> coll, clock |-> clock, nextOid |-> nextOid,
                                aborted |-> FALSE, created |-> <<>>, steps |-> <<>>])
                      ELSE FallbackLoop(ItemsOf(body),
                               [coll |-> coll, clock |-> clock, nextOid |-> nextOid,
                                aborted |-> FALSE, created |-> <<>>, steps |-> <<>>])) :
                     /\ coll' = out.coll
                     /\ clock' = out.clock
                     /\ nextOid' = out.nextOid
                     /\ nCreated' = nCreated + Len(ItemsOf(body))
                     /\ last' = [op |-> "create", items |-> ItemsOf(body),
                                 status |-> IF out.aborted THEN 0 ELSE 200,
                                 conn |-> logsCollection, body |-> BodyClass(body),
                                 created |-> out.created, steps |-> out.steps]
    /\ UNCHANGED <<inflight, backend, logs, logsCollection, initPc>>

\* skip = (page - 1) * limit
DurableSkip(page, limit) ==
    IF page.nan \/ limit.nan THEN NaN ELSE Num((page.n - 1) * limit.n)

\* app.get("/api/logs"): the responses it can give.  Without logsCollection the
\* empty page; otherwise countDocuments and find either reject (status 500, as
\* they do for a skip or a limit that is NaN) or give a page of some order
\* that is descending in createdAt
DurableListings(docs, conn, query) ==
    LET page == DurablePage(query)
        limit == DurableLimit(query)
        skip == DurableSkip(page, limit)
        req == [op |-> "list", query |-> query, conn |-> conn,
                page |-> page, limit |-> limit]
        failed == req @@ [status |-> 500, shape |-> "error", logs |-> <<>>]
    IN  IF ~conn
        THEN {req @@ [status |-> 200, shape |-> "page", logs |-> <<>>, total |-> 0]}
        ELSE IF skip.nan \/ limit.nan THEN {failed}
        ELSE {failed} \cup
             { req @@ [status |-> 200, shape |-> "page", total |-> Len(docs),
                       logs |-> [i \in 1..Len(SkipLimit(sorted, skip.n, limit.n)) |->
                                    ClientShape(SkipLimit(sorted, skip.n, limit.n)[i])]] :
                  sorted \in SortedDesc(docs, 1..Len(docs)) }

DurableGetLogs ==
    /\ backend = "durable"
    /\ \E query \in Queries :
          \E response \in DurableListings(coll, logsCollection, query) : last' = response
    /\ UNCHANGED <<inflight, backend, clock, logs, coll, nextOid, logsCollection, initPc, nCreated>>

\* app.post("/api/logs/clear").  ok: whether deleteMany resolves
DurableClearLogs ==
    /\ backend = "durable"
    /\ \E ok \in BOOLEAN :
          /\ coll' = IF logsCollection /\ ok THEN deleteMany(coll) ELSE coll
          /\ last' = [op |-> "clear", conn |-> logsCollection, pre |-> coll,
                      again |-> (last.op = "clear" /\ last.status = 200),
                      status |-> IF logsCollection /\ ~ok THEN 500 ELSE 200]
    /\ UNCHANGED <<inflight, backend, clock, logs, nextOid, logsCollection, initPc, nCreated>>

-----------------------------------------------------------------------------
(* The initial states *)

\* an entry that an earlier request with the body {} left in the list
Filler(t) == [id |-> <<t, 0>>, type |-> "info", data |-> EmptyObject, timestamp |-> t]

\* the list after LogCap - 3 such requests, one per ms, on top of the demo logs
FullLogs ==
    [i \in 1..LogCap |->
        IF i <= LogCap - 3 THEN Filler(LogCap - 2 - i)
        ELSE initializeDemoLogs[i - (LogCap - 3)]]

\* a collection that an earlier run of the server left behind: the three demo
\* records, one ms apart.  The server starts with initMongo() awaiting the
\* connection, or having returned without one (no driver, no MONGODB_URI); a
\* server that has been up for a while has the connection
SeedColl ==
    << [_id |-> 1, type |-> "success", data |-> DemoData1, createdAt |-> -3],
       [_id |-> 2, type |-> "waiting", data |-> DemoData2, createdAt |-> -2],
       [_id |-> 3, type |-> "failure", data |-> DemoData3, createdAt |-> -1] >>

InitDurable ==
    /\ backend = "durable"
    /\ clock = 0
    /\ logs = <<>>
    /\ nCreated = 0
    /\ inflight = NoHandlers
    /\ last = [op |-> "start"]
    /\ \/ initPc = "returned" /\ logsCollection = TRUE /\ coll \in {SeedColl, <<>>}
       \/ initPc = "connect" /\ logsCollection = FALSE /\ coll \in {SeedColl, <<>>}
       \/ initPc = "returned" /\ logsCollection = FALSE /\ coll = <<>>
    /\ nextOid = Len(coll) + 1

InitVolatile ==
    /\ backend = "volatile"
    /\ \/ clock = 0 /\ logs = initializeDemoLogs
       \/ clock = LogCap - 3 /\ logs = FullLogs
    /\ coll = <<>>
    /\ nextOid = 1
    /\ logsCollection = FALSE
    /\ initPc = "returned"
    /\ nCreated = 0
    /\ inflight = NoHandlers
    /\ last = [op |-> "start"]

Init == InitDurable \/ InitVolatile

Next ==
    \/ VolatilePostLogs
    \/ VolatileGetLogs
    \/ VolatileClearLogs
    \/ InitMongoConnected
    \/ InitMongoFailed
    \/ DurablePostLogs
    \/ DurableGetLogs
    \/ DurableClearLogs

Spec == Init /\ [][Next]_vars

-----------------------------------------------------------------------------
(* The status mapping on its own: one record in, its type out *)

StrUpSuccessSp == <<"S","U","C","C","E","S","S"," ">>
StrSpSuccess == <<" ","s","u","c","c","e","s","s">>
StrUpFailure == <<"F","A","I","L","U","R","E">>
StrCapFailure == <<"F","a","i","l","u","r","e">>
StrCapWaiting == <<"W","a","i","t","i","n","g">>
StrCapWaitingForApproval ==
    <<"W","a","i","t","i","n","g"," ","F","o","r"," ","A","p","p","r","o","v","a","l">>
StrWaitingFor == <<"w","a","i","t","i","n","g"," ","f","o","r">>
StrError == <<"e","r","r","o","r">>
StrSpaces == <<" "," ">>

StatusValues ==
    {StrSuccess, StrCapSuccess, StrUpSuccessSp, StrSpSuccess, StrFailure, StrUpFailure,
     StrWaiting, StrCapWaiting, StrWaitingForApproval, StrCapWaitingForApproval,
     StrWaitingFor, StrBanana, StrInfo, StrSpaces, <<>>}
TypeValues == {StrSuccess, StrCapFailure, StrWaiting, StrError, <<>>}

StatusRecords ==
    {EmptyObject}
    \cup {[status |-> st] : st \in StatusValues}
    \cup {[type |-> ty] : ty \in TypeValues}
    \cup {[status |-> st, type |-> ty] : st \in StatusValues, ty \in TypeValues}

InitNormalize ==
    /\ backend = "none"
    /\ clock = 0
    /\ logs = <<>>
    /\ coll = <<>>
    /\ nextOid = 1
    /\ logsCollection = FALSE
    /\ initPc = "returned"
    /\ nCreated = 0
    /\ inflight = NoHandlers
    /\ last \in {[op |-> "record", item |-> item] : item \in StatusRecords}

\* the head of the for loop of app.post("/api/logs"): incomingStatus and type
Normalize ==
    /\ last.op = "record"
    /\ last' = [op |-> "normalized", item |-> last.item, type |-> NormalizeType(last.item)]
    /\ UNCHANGED <<inflight, backend, clock, logs, coll, nextOid, logsCollection, initPc, nCreated>>

NextNormalize == Normalize

SpecNormalize == InitNormalize /\ [][NextNormalize]_vars

-----------------------------------------------------------------------------
(* The two programs side by side, started from the same entries and sent the  *)
(* same requests; the storage operations of the collection all resolve       *)

NoFault(out) ==
    /\ ~out.aborted
    /\ \A i \in 1..Len(out.steps) : out.steps[i].fault = "none"

InitPair ==
    /\ backend = "pair"
    /\ clock = 0
    /\ logs = initializeDemoLogs
    /\ coll = SeedColl
    /\ nextOid = 4
    /\ logsCollection = TRUE
    /\ initPc = "returned"
    /\ nCreated = 0
    /\ inflight = NoHandlers
    /\ last = [op |-> "start"]

\* create-logs, sent to both
PairPostLogs ==
    /\ backend = "pair"
    /\ \E body \in Bodies :
          /\ body.kind # "undefined"
          /\ nCreated + Len(ItemsOf(body)) <= MaxCreated
          /\ \E v \in VolatileLoop(ItemsOf(body),
                         [logs |-> logs, clock |-> clock,
                          created |-> <<>>, steps |-> <<>>]),
                d \in DurableLoop(ItemsOf(body),
                         [coll |-> coll, clock |-> clock, nextOid |-> nextOid,
                          aborted |-> FALSE, created |-> <<>>, steps |-> <<>>]) :
                /\ NoFault(d)
                /\ \A i \in 1..Len(v.created) :
                      v.created[i].timestamp = d.created[i].timestamp
                /\ logs' = v.logs
                /\ coll' = d.coll
                /\ clock' = v.clock
                /\ nextOid' = d.nextOid
                /\ nCreated' = nCreated + Len(ItemsOf(body))
                /\ last' = [op |-> "create", items |-> ItemsOf(body),
                            v |-> [created |-> v.created, steps |-> v.steps],
                            d |-> [created |-> d.created, steps |-> d.steps]]
    /\ UNCHANGED <<inflight, backend, logsCollection, initPc>>

\* list-logs, sent to both
PairGetLogs ==
    /\ backend = "pair"
    /\ \E query \in Queries :
          \E response \in DurableListings(coll, logsCollection, query) :
              /\ response.status = 200
              /\ last' = [op |-> "list", query |-> query,
                          v |-> VolatileListing(logs, query), d |-> response]
    /\ UNCHANGED <<inflight, backend, clock, logs, coll, nextOid, logsCollection, initPc, nCreated>>

\* clear-logs, sent to both
PairClearLogs ==
    /\ backend = "pair"
    /\ logs' = <<>>
    /\ coll' = deleteMany(coll)
    /\ last' = [op |-> "clear"]
    /\ UNCHANGED <<inflight, backend, clock, nextOid, logsCollection, initPc, nCreated>>

NextPair == PairPostLogs \/ PairGetLogs \/ PairClearLogs

SpecPair == InitPair /\ [][NextPair]_vars

-----------------------------------------------------------------------------
(* create-logs on batch elements of any JSON type: what the for loop does with *)
(* an element that is not a record with string fields                          *)

\* Number.prototype.toString() of a natural number: its decimal digits
RECURSIVE DigitsOf(_)
DigitsOf(n) ==
    LET d == SubSeq(<<"0","1","2","3","4","5","6","7","8","9">>, (n % 10) + 1, (n % 10) + 1)
    IN  IF n < 10 THEN d ELSE DigitsOf(n \div 10) \o d

StrTrue == <<"t","r","u","e">>

\* the elements a JSON array can hold: null, a number, a string, and objects
\* whose status is a string (or absent), a number, a boolean, or an object that
\* has a key "toString" of its own (its value is not a function)
JsonElements ==
    { [kind |-> "null"],
      [kind |-> "number", n |-> 5],
      [kind |-> "string", s |-> <<"o","k">>],
      [kind |-> "object", status |-> "string", item |-> WaitingNoPlatform],
      [kind |-> "object", status |-> "string", item |-> SuccessNoPlatform],
      [kind |-> "object", status |-> "number", n |-> 42, item |-> [execution_id |-> "433"]],
      [kind |-> "object", status |-> "boolean", item |-> [execution_id |-> "433"]],
      [kind |-> "object", status |-> "toString", item |-> [execution_id |-> "433"]] }

\* item.status of null, and .toString() of a value whose toString is not a
\* function, throw a TypeError
ThrowsTypeError(elem) ==
    \/ elem.kind = "null"
    \/ elem.kind = "object" /\ elem.status = "toString"

\* an element that does not throw, as the record the loop body takes it for:
\* a number has no property and spreads to {}, a string spreads to its
\* characters by index, a status that is a number or a boolean is read through
\* its toString()
AsRecord(elem) ==
    IF elem.kind = "number" THEN EmptyObject
    ELSE IF elem.kind = "string" THEN [k \in {"0", "1"} |-> IF k = "0" THEN elem.s[1] ELSE elem.s[2]]
    ELSE IF elem.status = "number" THEN [status |-> DigitsOf(elem.n)] @@ elem.item
    ELSE IF elem.status = "boolean" THEN [status |-> StrTrue] @@ elem.item
    ELSE elem.item

\* req.body: an array of one to MaxBatch elements
ElementBodies == UNION {[1..n -> JsonElements] : n \in 1..MaxBatch}

\* the for loop of server.js: a TypeError ends it where it is thrown
RECURSIVE VolatileElementsLoop(_, _)
VolatileElementsLoop(elems, st) ==
    IF elems = <<>> THEN {st}
    ELSE IF ThrowsTypeError(Head(elems)) THEN {[st EXCEPT !.thrown = TRUE]}
    ELSE UNION { VolatileElementsLoop(Tail(elems),
                     VolatileItem(st, AsRecord(Head(elems)), tick, rnd) @@ [thrown |-> FALSE]) :
                    tick \in 0..MaxTick, rnd \in 0..(MaxRand - 1) }

\* the for loop of part_000 with logsCollection set: a TypeError rejects the
\* async handler as a rejected findOneAndDelete does
RECURSIVE DurableElementsLoop(_, _)
DurableElementsLoop(elems, st) ==
    IF elems = <<>> \/ st.aborted THEN {st}
    ELSE IF ThrowsTypeError(Head(elems)) THEN {[st EXCEPT !.aborted = TRUE, !.thrown = TRUE]}
    ELSE UNION { DurableElementsLoop(Tail(elems),
                     DurableItem(st, AsRecord(Head(elems)), removed, tick, insertOk)) :
                    removed \in DeleteOutcomes(st.coll, AsRecord(Head(elems))),
                    tick \in 0..MaxTick,
                    insertOk \in BOOLEAN }

\* app.post("/api/logs") of server.js.  An exception thrown in a synchronous
\* route handler goes to the error handler of express: status 500, no list
VolatilePostElements ==
    /\ backend = "volatile"
    /\ \E elems \in ElementBodies :
          /\ nCreated + Len(elems) <= MaxCreated
          /\ \E out \in VolatileElementsLoop(elems,
                           [logs |-> logs, clock |-> clock, created |-> <<>>,
                            steps |-> <<>>, thrown |-> FALSE]) :
                /\ logs' = out.logs
                /\ clock' = out.clock
                /\ nCreated' = nCreated + Len(elems)
                /\ last' = [op |-> "create", elems |-> elems, conn |-> TRUE,
                            status |-> IF out.thrown THEN 500 ELSE 200,
                            thrown |-> out.thrown,
                            created |-> IF out.thrown THEN <<>> ELSE out.created,
                            steps |-> out.steps]
    /\ UNCHANGED <<inflight, backend, coll, nextOid, logsCollection, initPc>>

\* app.post("/api/logs") of part_000, logsCollection set; status 0 stands for a
\* handler that ended in a rejection
DurablePostElements ==
    /\ backend = "durable"
    /\ logsCollection
    /\ \E elems \in ElementBodies :
          /\ nCreated + Len(elems) <= MaxCreated
          /\ \E out \in DurableElementsLoop(elems,
                           [coll |-> coll, clock |-> clock, nextOid |-> nextOid,
                            aborted |-> FALSE, thrown |-> FALSE,
                            created |-> <<>>, steps |-> <<>>]) :
                /\ coll' = out.coll
                /\ clock' = out.clock
                /\ nextOid' = out.nextOid
                /\ nCreated' = nCreated + Len(elems)
                /\ last' = [op |-> "create", elems |-> elems, conn |-> TRUE,
                            status |-> IF out.aborted THEN 0 ELSE 200,
                            thrown |-> out.thrown,
                            created |-> IF out.aborted THEN <<>> ELSE out.created,
                            steps |-> out.steps]
    /\ UNCHANGED <<inflight, backend, logs, logsCollection, initPc>>

InitElements ==
    /\ backend \in {"volatile", "durable"}
    /\ clock = 0
    /\ logs = IF backend = "volatile" THEN initializeDemoLogs ELSE <<>>
    /\ coll \in IF backend = "durable" THEN {SeedColl, <<>>} ELSE {<<>>}
    /\ nextOid = Len(coll) + 1
    /\ logsCollection = (backend = "durable")
    /\ initPc = "returned"
    /\ nCreated = 0
    /\ inflight = NoHandlers
    /\ last = [op |-> "start"]

NextElements == VolatilePostElements \/ DurablePostElements

SpecElements == InitElements /\ [][NextElements]_vars

-----------------------------------------------------------------------------
(* part_000 with its awaits: a create-logs handler and a list-logs handler    *)
(* give way to other handlers at every await, the collection connected.      *)
(* (clear-logs is one awaited deleteMany and is left to the specification     *)
(* above.)                                                                    *)

\* the collection once findOneAndDelete has resolved with the removed-th document
\* (afterFindOneAndDeleteDeferred: the delete not yet applied when it resolves)
afterFindOneAndDeleteDeferred(docs, removed) == docs

afterFindOneAndDelete(docs, removed) ==
    IF removed > 0 THEN RemoveAt(docs, removed) ELSE docs

Ids(docs) == {docs[i]._id : i \in 1..Len(docs)}

\* the handler reaches addLog: doc.createdAt = new Date(), then await insertOne
CallAddLog(h, now) == [h EXCEPT !.pc = "insert", !.now = now]

\* the handler at the head of the loop body for Head(h.items): it comes to rest
\* at await findOneAndDelete when the record reconciles, at await insertOne else
EnterItem(h, now) ==
    IF Reconciles(NormalizeType(Head(h.items)), Head(h.items))
    THEN [h EXCEPT !.pc = "delete"]
    ELSE CallAddLog(h, now)

\* the bodies sent here: no body, one record, or an array of records, the
\* records being a waiting one and the two success ones that can supersede it
AsyncBodies ==
    {b \in Bodies :
        b.kind = "undefined"
        \/ \A i \in 1..Len(ItemsOf(b)) :
              ItemsOf(b)[i] \in {WaitingFacebook, SuccessFacebook, SuccessNoPlatform}}

\* the clock once the handler has come to rest: only addLog reads it
EnterClock(items, now) ==
    IF Reconciles(NormalizeType(Head(items)), Head(items)) THEN clock ELSE now

InitAsync ==
    /\ backend = "async"
    /\ clock = 0
    /\ logs = <<>>
    /\ coll \in {SeedColl, <<>>}
    /\ nextOid = Len(coll) + 1
    /\ logsCollection = TRUE
    /\ initPc = "returned"
    /\ nCreated = 0
    /\ inflight = NoHandlers
    /\ last = [op |-> "start"]

\* app.post("/api/logs") up to its first await
AsyncPostLogs ==
    /\ backend = "async"
    /\ inflight.post.pc = "idle"
    /\ \E body \in AsyncBodies :
          IF body.kind = "undefined" \/ ItemsOf(body) = <<>>
          THEN /\ last' = [op |-> "create", items |-> <<>>, created |-> <<>>,
                           status |-> IF body.kind = "undefined" THEN 400 ELSE 200,
                           removed |-> {}, seen |-> {},
                           pre |-> coll, post |-> coll]
               /\ UNCHANGED <<inflight, clock, nCreated>>
          ELSE /\ nCreated + Len(ItemsOf(body)) <= MaxCreated
               /\ nCreated' = nCreated + Len(ItemsOf(body))
               /\ \E tick \in 0..MaxTick :
                     /\ clock' = EnterClock(ItemsOf(body), clock + tick)
                     /\ inflight' =
                           [inflight EXCEPT !.post =
                               EnterItem([pc |-> "start", items |-> ItemsOf(body),
                                          all |-> ItemsOf(body), created |-> <<>>,
                                          removed |-> {}, seen |-> {},
                                          pre |-> coll, now |-> clock],
                                         clock + tick)]
               /\ UNCHANGED last
    /\ UNCHANGED <<backend, logs, coll, nextOid, logsCollection, initPc>>

\* await logsCollection.findOneAndDelete(query) settles.  Rejected (-1): the
\* handler ends in the rejection.  Resolved: the handler goes on to addLog
AsyncDeleteSettles ==
    /\ backend = "async"
    /\ inflight.post.pc = "delete"
    /\ \E removed \in DeleteOutcomes(coll, Head(inflight.post.items)), tick \in 0..MaxTick :
          LET h == inflight.post
          IN  IF removed = -1
              THEN /\ inflight' = [inflight EXCEPT !.post = [pc |-> "idle"]]
                   /\ last' = [op |-> "create", items |-> h.all, created |-> <<>>,
                               status |-> 0, removed |-> h.removed, seen |-> h.seen,
                               pre |-> h.pre, post |-> coll]
                   /\ UNCHANGED <<coll, clock>>
              ELSE /\ coll' = afterFindOneAndDelete(coll, removed)
                   /\ clock' = clock + tick
                   /\ inflight' =
                         [inflight EXCEPT !.post =
                             CallAddLog([h EXCEPT !.removed =
                                            IF removed > 0 THEN @ \cup {coll[removed]._id}
                                            ELSE @],
                                        clock + tick)]
                   /\ UNCHANGED last
    /\ UNCHANGED <<backend, logs, nextOid, logsCollection, initPc, nCreated>>

\* await logsCollection.insertOne(doc) settles.  Rejected: caught and logged.
\* Resolved: created.push(entry).  Then the next record, or the response
AsyncInsertSettles ==
    /\ backend = "async"
    /\ inflight.post.pc = "insert"
    /\ \E ok \in BOOLEAN, tick \in 0..MaxTick :
          LET h == inflight.post
              item == Head(h.items)
              added == addLogMongo(coll, NormalizeType(item), StripStatus(item),
                                   h.now, nextOid)
              created == IF ok THEN Append(h.created, added.entry) ELSE h.created
              after == IF ok THEN added.coll ELSE coll
          IN  /\ coll' = after
              /\ nextOid' = IF ok THEN nextOid + 1 ELSE nextOid
              /\ IF Tail(h.items) = <<>>
                 THEN /\ inflight' = [inflight EXCEPT !.post = [pc |-> "idle"],
                                                      !.gone = @ \cup h.removed]
                      /\ last' = [op |-> "create", items |-> h.all, created |-> created,
                                  status |-> 200, removed |-> h.removed, seen |-> h.seen,
                                  pre |-> h.pre, post |-> after]
                      /\ UNCHANGED clock
                 ELSE /\ inflight' =
                            [inflight EXCEPT !.post =
                                EnterItem([h EXCEPT !.items = Tail(@), !.created = created],
                                          clock + tick)]
                      /\ clock' = EnterClock(Tail(h.items), clock + tick)
                      /\ UNCHANGED last
    /\ UNCHANGED <<backend, logs, logsCollection, initPc, nCreated>>

\* app.get("/api/logs") with no query parameters, up to await countDocuments()
AsyncGetLogs ==
    /\ backend = "async"
    /\ inflight.get.pc = "idle"
    /\ inflight' = [inflight EXCEPT !.get = [pc |-> "count", gone |-> inflight.gone]]
    /\ UNCHANGED <<backend, clock, logs, coll, nextOid, logsCollection, initPc, nCreated, last>>

\* await logsCollection.countDocuments() settles; a rejection goes to the catch
AsyncCountSettles ==
    /\ backend = "async"
    /\ inflight.get.pc = "count"
    /\ \E ok \in BOOLEAN :
          IF ok
          THEN /\ inflight' = [inflight EXCEPT !.get = [pc |-> "find", gone |-> @.gone,
                                                        total |-> Len(coll)]]
               /\ UNCHANGED last
          ELSE /\ inflight' = [inflight EXCEPT !.get = [pc |-> "idle"]]
               /\ last' = [op |-> "list", status |-> 500, logs |-> <<>>, total |-> 0,
                           gone |-> inflight.get.gone]
    /\ UNCHANGED <<backend, clock, logs, coll, nextOid, logsCollection, initPc, nCreated>>

\* await find({}).sort().skip().limit().toArray() settles, and the response.  A
\* create-logs handler in flight notes what the listing has shown
AsyncFindSettles ==
    /\ backend = "async"
    /\ inflight.get.pc = "find"
    /\ \E response \in DurableListings(coll, TRUE, EmptyObject) :
          LET snap == [total |-> inflight.get.total,
                       ids |-> {response.logs[i].id : i \in 1..Len(response.logs)}]
          IN  /\ last' = [op |-> "list", status |-> response.status,
                          logs |-> response.logs, total |-> inflight.get.total,
                          gone |-> inflight.get.gone]
              /\ inflight' =
                    [inflight EXCEPT
                        !.get = [pc |-> "idle"],
                        !.post = IF @.pc # "idle" /\ response.status = 200
                                 THEN [@ EXCEPT !.seen = @ \cup {snap}]
                                 ELSE @]
    /\ UNCHANGED <<backend, clock, logs, coll, nextOid, logsCollection, initPc, nCreated>>

NextAsync ==
    \/ AsyncPostLogs
    \/ AsyncDeleteSettles
    \/ AsyncInsertSettles
    \/ AsyncGetLogs
    \/ AsyncCountSettles
    \/ AsyncFindSettles

SpecAsync == InitAsync /\ [][NextAsync]_vars

-----------------------------------------------------------------------------
(* Views of the state that the properties below speak about *)

Min(a, b) == IF a <= b THEN a ELSE b

\* the stored entries of the running backend in the order of creation, newest
\* first, in the shape a client sees
NewestFirst(store) ==
    IF backend = "volatile" THEN store
    ELSE [i \in 1..Len(store) |-> ClientShape(store[Len(store) + 1 - i])]

Store == IF backend = "volatile" THEN logs ELSE coll

\* the store before and after the i-th record of the last create-logs call
StepPre(i) == NewestFirst(last.steps[i].pre)
StepPost(i) ==
    NewestFirst(IF i < Len(last.steps) THEN last.steps[i + 1].pre ELSE Store)

\* the i-th record of the last create-logs call was handled by a backend with a
\* store, and no storage operation rejected while it was handled
StepRan(i) ==
    /\ last.op = "create"
    /\ last.conn
    /\ i \in 1..Len(last.steps)
    /\ last.steps[i].fault = "none"

\* a stored waiting entry with data.execution_id = d and data.platform = p
WaitingFor(e, d, p) ==
    /\ e.type = "waiting"
    /\ HasKey(e.data, "execution_id") /\ e.data.execution_id = d
    /\ HasKey(e.data, "platform") /\ e.data.platform = p

\* a stored waiting entry with data.execution_id = d
WaitingForDraft(e, d) ==
    /\ e.type = "waiting"
    /\ HasKey(e.data, "execution_id") /\ e.data.execution_id = d

\* the entry at the head of post is the one made from the record
Appended(post, item, type) ==
    /\ post # <<>>
    /\ post[1].type = type
    /\ post[1].data = StripStatus(item)

\* what is left of a list when the volatile backend has put one entry in front
\* of it and cut the result to LogCap entries
UnderCap(s) ==
    IF backend = "volatile" THEN SubSeq(s, 1, Min(Len(s), LogCap - 1)) ELSE s

-----------------------------------------------------------------------------
(* C1 *)

-----------------------------------------------------------------------------
(* C2 *)

\* C2 as stated: a success record with draft_workflow_execution_id = d and no
\* platform field removes a stored waiting entry with data.execution_id = d,
\* whatever the platform of that entry, whenever the store holds one.
C2_AsStated ==
    \A i \in 1..(IF last.op = "create" THEN Len(last.steps) ELSE 0) :
        LET item == last.steps[i].item
        IN  ( /\ StepRan(i)
              /\ last.steps[i].type = "success"
              /\ HasKey(item, "draft_workflow_execution_id")
              /\ item.draft_workflow_execution_id # ""
              /\ ~HasKey(item, "platform") )
            => LET pre == StepPre(i)
                   W == {k \in 1..Len(pre) :
                            WaitingForDraft(pre[k], item.draft_workflow_execution_id)}
               IN  W # {} => \E k \in W : Tail(StepPost(i)) = UnderCap(RemoveAt(pre, k))

-----------------------------------------------------------------------------
(* C3 *)

\* the reconciliation predicate of the running backend, on an entry in client shape
Matches(e, item) ==
    IF backend = "volatile" THEN VolatileMatches(e, item) ELSE DurableMatches(e, item)

\* C3 as stated: when two or more stored waiting entries satisfy the
\* reconciliation predicate of an incoming success record, exactly one of them
\* is removed, and it is the most recently created one.
C3_AsStated ==
    \A i \in 1..(IF last.op = "create" THEN Len(last.steps) ELSE 0) :
        LET item == last.steps[i].item
        IN  (StepRan(i) /\ Reconciles(last.steps[i].type, item))
            => LET pre == StepPre(i)
                   M == {k \in 1..Len(pre) : Matches(pre[k], item)}
               IN  Cardinality(M) >= 2
                   => Tail(StepPost(i)) =
                         UnderCap(RemoveAt(pre, CHOOSE k \in M : \A j \in M : k <= j))

-----------------------------------------------------------------------------
(* C6 *)

\* C6 as stated: a create-logs call with N records (none of which removes an
\* entry) returns N entries with pairwise distinct ids, the i-th made from the
\* i-th record, and a listing issued right after it starts with those N entries,
\* the entry of the last record first.
C6_AsStated ==
    [][ ( /\ last.op = "create"
          /\ last.status = 200
          /\ last.conn
          /\ \A i \in 1..Len(last.steps) :
                last.steps[i].fault = "none" /\ last.steps[i].removed = 0
          /\ last'.op = "list"
          /\ last'.status = 200
          /\ last'.query = EmptyObject )
        => LET N == Len(last.items)
           IN  /\ Len(last.created) = N
               /\ \A i, j \in 1..N : i # j => last.created[i].id # last.created[j].id
               /\ \A i \in 1..N : last.created[i].data = StripStatus(last.items[i])
               /\ Len(last'.logs) >= N
               /\ \A i \in 1..N : last'.logs[i] = last.created[N + 1 - i] ]_vars

-----------------------------------------------------------------------------
(* C7 *)

\* a query that names a page p >= 1 and a limit l in 1..100 in decimal digits
NamesPage(query) ==
    /\ HasKey(query, "page") /\ HasKey(query, "limit")
    /\ \A i \in 1..Len(query.page) : IsDigit(query.page[i])
    /\ \A i \in 1..Len(query.limit) : IsDigit(query.limit[i])
    /\ query.page # <<>> /\ query.limit # <<>>
    /\ DigitRun(query.page, 0) >= 1
    /\ DigitRun(query.limit, 0) \in 1..100

\* C7 as stated: for a page p >= 1 and a limit l in [1, 100], list-logs returns
\* the entries ranked (p-1)*l+1 .. min(p*l, T) of the T stored entries, newest
\* first, with total = T and p and l echoed.
C7_AsStated ==
    (last.op = "list" /\ last.status = 200 /\ last.conn /\ NamesPage(last.query))
    => LET p == DigitRun(last.query.page, 0)
           l == DigitRun(last.query.limit, 0)
           all == NewestFirst(Store)
       IN  /\ last.shape = "page"
           /\ last.total = Len(all)
           /\ last.page = Num(p)
           /\ last.limit = Num(l)
           /\ last.logs = SubSeq(all, (p - 1) * l + 1, Min(p * l, Len(all)))

-----------------------------------------------------------------------------
(* C8 *)

\* C8 as stated: whatever the page and limit parameters are, the page that
\* list-logs uses is an integer >= 1 (1 when absent, 1 for page=0), the limit is
\* an integer in [1, 100] (20 when absent, 100 for limit=500), and no listing
\* has more than 100 entries.
C8_AsStated ==
    last.op = "list"
    => /\ ~last.limit.nan
       /\ last.limit.n \in 1..100
       /\ ~HasKey(last.query, "limit") => last.limit.n = 20
       /\ (HasKey(last.query, "limit") /\ last.query.limit = Str500) => last.limit.n = 100
       /\ Len(last.logs) <= 100
       /\ backend = "durable"
             => /\ ~last.page.nan
                /\ last.page.n >= 1
                /\ ~HasKey(last.query, "page") => last.page.n = 1
                /\ (HasKey(last.query, "page") /\ last.query.page = Str0)
                      => last.page.n = 1

-----------------------------------------------------------------------------
(* C9 *)

\* what a listing issued now can show
Visible ==
    IF backend = "volatile" THEN logs ELSE IF logsCollection THEN coll ELSE <<>>

-----------------------------------------------------------------------------
(* C10 *)

\* C10: with no durable connection (initMongo has returned without assigning
\* logsCollection), a create-logs call with N records returns N entries and
\* stores nothing, a listing returns no entries and total 0, and clear-logs
\* succeeds and changes nothing.
C10_NoConnection ==
    (backend = "durable" /\ initPc = "returned" /\ ~logsCollection)
    => /\ last.op = "create"
             => /\ last.status \in {200, 400}
                /\ last.status = 200 => Len(last.created) = Len(last.items)
                /\ \A i \in 1..Len(last.steps) :
                      ~last.steps[i].stored /\ last.steps[i].removed = 0
       /\ last.op = "list"
             => (last.status = 200 /\ last.shape = "page"
                 /\ last.logs = <<>> /\ last.total = 0)
       /\ last.op = "clear" => (last.status = 200 /\ coll = last.pre)

\* a batch of two records was answered with two entries without a connection
C10_Witness ==
    /\ backend = "durable" /\ initPc = "returned" /\ ~logsCollection
    /\ last.op = "create"
    /\ Len(last.items) >= 2
    /\ Len(last.created) = Len(last.items)

-----------------------------------------------------------------------------
(* C4 *)

\* what the two backends can agree on about an entry: its type and its data
Content(e) == [type |-> e.type, data |-> e.data]
Contents(s) == [i \in 1..Len(s) |-> Content(s[i])]

\* the entry that the i-th record of a create-logs call removed from the store
\* it found, "none" when it removed none
Removed(steps, i) ==
    IF steps[i].removed = 0 THEN <<>> ELSE <<Content(steps[i].pre[steps[i].removed])>>

\* C4 as stated: started from the same entries and sent the same requests, the
\* volatile and the durable backend return the same entries in the same order
\* for every listing and remove the same waiting entry in every reconciliation.
C4_AsStated ==
    /\ last.op = "list" => Contents(last.v.logs) = Contents(last.d.logs)
    /\ last.op = "create"
          => \A i \in 1..Len(last.items) :
                Removed(last.v.steps, i) = Removed(last.d.steps, i)

-----------------------------------------------------------------------------
(* C5 *)

RECURSIVE TrimEnd(_)
TrimEnd(s) ==
    IF s # <<>> /\ IsWhitespace(s[Len(s)]) THEN TrimEnd(SubSeq(s, 1, Len(s) - 1)) ELSE s

Trim(s) == TrimEnd(SkipWhitespace(s))

\* C5 as stated: the type of a record is decided by its status (its type field
\* when it has no status), trimmed and with case ignored: "success" gives
\* success, "failure" failure, "waiting" and "waiting for approval" waiting,
\* anything else, an absent or empty value included, info.
C5_AsStated ==
    last.op = "normalized"
    => LET given == Trim(toLowerCase(OrDefault(last.item, "status",
                                         OrDefault(last.item, "type", <<>>))))
       IN  last.type = CASE given = StrSuccess -> "success"
                         [] given = StrFailure -> "failure"
                         [] given \in {StrWaiting, StrWaitingForApproval} -> "waiting"
                         [] OTHER -> "info"

-----------------------------------------------------------------------------
(* C11 *)

\* C11 as stated: a storage operation that rejects while one record of a batch
\* is handled, the reconciliation delete as well as the insert, does not end the
\* batch: every record of the batch is handled, the call is answered with
\* success, and the returned entries are exactly those of the records whose
\* append succeeded.
C11_AsStated ==
    (last.op = "create" /\ last.status # 400)
    => /\ last.status = 200
       /\ Len(last.steps) = Len(last.items)
       /\ Len(last.created) = Cardinality({i \in 1..Len(last.steps) : last.steps[i].stored})

-----------------------------------------------------------------------------
(* C13 *)

\* C13 as stated: a create-logs call with an empty or an absent body is answered
\* with a client error before any processing: no record is normalized and no
\* entry is created.
C13_AsStated ==
    (last.op = "create" /\ last.body \in {"absent", "empty"})
    => /\ last.status = 400
       /\ last.steps = <<>>
       /\ last.created = <<>>

-----------------------------------------------------------------------------
(* C19 *)

\* C19 as stated: after a create-logs call that has answered, every success
\* record on whose behalf a waiting entry was removed has its own entry stored
\* and returned, an append that rejects included.
C19_AsStated ==
    (last.op = "create" /\ last.status = 200)
    => \A i \in 1..Len(last.steps) :
          last.steps[i].removed > 0 => last.steps[i].stored

-----------------------------------------------------------------------------
(* C20 *)

\* C20 as stated: with a durable connection configured (logsCollection set, or
\* initMongo still waiting for the connection), every record for which a
\* create-logs call has returned an entry has that entry in the collection once
\* the record is handled.
C20_AsStated ==
    (backend = "durable" /\ last.op = "create" /\ (last.conn \/ initPc = "connect"))
    => \A i \in 1..Len(last.steps) :
          last.steps[i].fault = "none"
          => /\ last.steps[i].stored
             /\ Appended(StepPost(i), last.steps[i].item, last.steps[i].type)

-----------------------------------------------------------------------------
(* C17 *)

\* C17: the volatile list never holds more than LogCap entries, and every append
\* leaves the entry just made at the head, followed by the entries that were
\* there (less the one reconciliation took), in their order, cut at the tail to
\* LogCap entries in all.
C17_Cap ==
    backend = "volatile"
    => /\ Len(logs) <= LogCap
       /\ last.op = "create"
             => \A i \in 1..Len(last.steps) :
                   LET pre == last.steps[i].pre
                       k == last.steps[i].removed
                       kept == IF k > 0 THEN RemoveAt(pre, k) ELSE pre
                       post == StepPost(i)
                   IN  /\ Len(post) <= LogCap
                       /\ post # <<>>
                       /\ post[1] = last.created[i]
                       /\ Tail(post) = SubSeq(kept, 1, Min(Len(kept), LogCap - 1))

\* an append to a list of LogCap entries has dropped the oldest of them
C17_Witness ==
    /\ backend = "volatile"
    /\ last.op = "create"
    /\ \E i \in 1..Len(last.steps) :
          /\ Len(last.steps[i].pre) = LogCap
          /\ last.steps[i].removed = 0
          /\ Len(StepPost(i)) = LogCap
          /\ StepPost(i)[LogCap] = last.steps[i].pre[LogCap - 1]

-----------------------------------------------------------------------------
(* C18 *)

\* the entry that the i-th record of the last create-logs call was answered with
CreatedOf(i) ==
    last.created[Cardinality({j \in 1..i : last.steps[j].fault = "none"})]

\* C18: the data of a created entry has every field of the record but status
\* and type, each with the record's value; and an entry that reconciliation
\* removed was in the store before the new entry was appended, was waiting, had
\* the record's draft_workflow_execution_id as its execution_id and, when the
\* record names a platform, that platform.
C18_Data ==
    last.op = "create"
    => \A i \in 1..Len(last.steps) :
          LET item == last.steps[i].item
              pre == last.steps[i].pre
              k == last.steps[i].removed
          IN  /\ last.steps[i].fault = "none"
                    => /\ DOMAIN CreatedOf(i).data = DOMAIN item \ {"status", "type"}
                       /\ \A f \in DOMAIN CreatedOf(i).data : CreatedOf(i).data[f] = item[f]
              /\ k > 0
                    => /\ k <= Len(pre)
                       /\ pre[k].type = "waiting"
                       /\ pre[k].data.execution_id = item.draft_workflow_execution_id
                       /\ (HasKey(item, "platform") /\ item.platform # "")
                             => (HasKey(pre[k].data, "platform")
                                 /\ pre[k].data.platform = item.platform)

\* a success record with a status, a draft id and a platform has removed a
\* waiting entry and been stored with both fields in its data
C18_Witness ==
    /\ last.op = "create"
    /\ \E i \in 1..Len(last.steps) :
          /\ last.steps[i].fault = "none"
          /\ last.steps[i].removed > 0
          /\ HasKey(last.steps[i].item, "status")
          /\ HasKey(last.steps[i].item, "platform")
          /\ HasKey(CreatedOf(i).data, "platform")
          /\ HasKey(CreatedOf(i).data, "draft_workflow_execution_id")
          /\ ~HasKey(CreatedOf(i).data, "status")

-----------------------------------------------------------------------------
(* C16 *)

\* what the i-th record of the last create-logs call left of the entries it found
Kept(i) ==
    IF last.steps[i].stored THEN Tail(StepPost(i)) ELSE StepPost(i)

\* the i-th record left every entry as it was, or took one waiting entry with
\* its draft id away under the Reconciliation Rule
FrameAsStated(i) ==
    LET item == last.steps[i].item
        pre == StepPre(i)
    IN  \/ Kept(i) = pre
        \/ /\ Reconciles(last.steps[i].type, item)
           /\ \E k \in 1..Len(pre) :
                 /\ WaitingForDraft(pre[k], item.draft_workflow_execution_id)
                 /\ Kept(i) = RemoveAt(pre, k)

\* the same, the volatile list losing its oldest entries at the cap
FrameUnderCap(i) ==
    LET item == last.steps[i].item
        pre == StepPre(i)
    IN  \/ Kept(i) = UnderCap(pre)
        \/ /\ Reconciles(last.steps[i].type, item)
           /\ \E k \in 1..Len(pre) :
                 /\ WaitingForDraft(pre[k], item.draft_workflow_execution_id)
                 /\ Kept(i) = UnderCap(RemoveAt(pre, k))

\* C16 as stated: a stored entry leaves the store only when reconciliation
\* removes it as a waiting entry or when clear-logs runs, and is never changed
\* while stored; a listing and a record that does not reconcile remove and
\* change nothing.
C16_AsStated ==
    [][ /\ last'.op \notin {"create", "clear"} => Store' = Store
        /\ (last'.op = "create" /\ nCreated' = nCreated) => Store' = Store
        /\ (last'.op = "create" /\ nCreated' > nCreated)
              => /\ last'.steps[1].pre = Store
                 /\ \A i \in 1..Len(last'.steps) : FrameAsStated(i)' ]_vars

\* C16 as amended: the same, with one more way out of the store: the volatile
\* list drops its oldest entries when an append takes it past LogCap entries.
C16_Frame ==
    [][ /\ last'.op \notin {"create", "clear"} => Store' = Store
        /\ (last'.op = "create" /\ nCreated' = nCreated) => Store' = Store
        /\ (last'.op = "create" /\ nCreated' > nCreated)
              => /\ last'.steps[1].pre = Store
                 /\ \A i \in 1..Len(last'.steps) : FrameUnderCap(i)' ]_vars

\* a waiting record has been stored in front of entries that are all still there
C16_Witness ==
    /\ last.op = "create"
    /\ \E i \in 1..Len(last.steps) :
          /\ last.steps[i].type = "waiting"
          /\ last.steps[i].stored
          /\ StepPre(i) # <<>>
          /\ Tail(StepPost(i)) = StepPre(i)

-----------------------------------------------------------------------------
(* C12 *)

\* C12 as stated: whatever the elements of a batch are, no element makes the
\* handler throw: when no storage operation rejects, every element is handled
\* and the call answers with success and one entry per element, so that it
\* never ends without its created list after having stored earlier elements.
C12_AsStated ==
    ( /\ last.op = "create"
      /\ \A i \in 1..Len(last.steps) : last.steps[i].fault = "none" )
    => /\ last.status = 200
       /\ Len(last.steps) = Len(last.elems)
       /\ Len(last.created) = Len(last.elems)

-----------------------------------------------------------------------------
(* C14 *)

\* C14 as stated: no list-logs call sees an intermediate state of a create-logs
\* call: what a listing answered while a create-logs call was in flight (its
\* total and its entries) is the collection as the call found it or as the call
\* left it, and the total of a listing is the total of the state its entries
\* are from.
C14_AsStated ==
    /\ (last.op = "list" /\ last.status = 200) => last.total = Len(last.logs)
    /\ (last.op = "create" /\ last.status = 200)
          => \A snap \in last.seen :
                \E docs \in {last.pre, last.post} :
                    snap.total = Len(docs) /\ snap.ids = Ids(docs)

-----------------------------------------------------------------------------
(* C15 *)

\* C15: a listing issued after a create-logs call has answered shows none of
\* the waiting entries which that call removed.
C15_Awaited ==
    (last.op = "list" /\ last.status = 200)
    => \A i \in 1..Len(last.logs) : last.logs[i].id \notin last.gone

\* a listing issued after a call that removed a waiting entry has shown entries
C15_Witness ==
    /\ last.op = "list"
    /\ last.status = 200
    /\ last.gone # {}
    /\ last.logs # <<>>

====
